---- MODULE Spec2Model ----
(***************************************************************************)
(* A model of extractor.py: the batch job that loads the ledger workbook,  *)
(* builds the description -> category counters, fetches new transactions   *)
(* from Plaid, merges them behind the ledger rows, infers the missing      *)
(* categories and writes the result to a CSV file.                         *)
(*                                                                         *)
(* Python dicts are functions whose DOMAIN is the dict's key set; lists    *)
(* are sequences; an exception ends the run in pc = "error".               *)
(***************************************************************************)
EXTENDS Integers, Sequences, FiniteSets, TLC

VARIABLES
    pc,                     \* the statement of __main__ that runs next
    error,                  \* the exception that ended the run, or None
    CONFIG,                 \* config.json as loaded at import
    workbook,               \* the 'Chase Transactions' sheet on disk
    plaid,                  \* what the provider holds for the access token
    csv_file,               \* the output file on disk
    existing_transactions,
    category_data,
    start_date,
    plaid_transactions,
    plaid_accounts,
    account_data,
    merged_transactions

vars == <<pc, error, CONFIG, workbook, plaid, csv_file, existing_transactions,
          category_data, start_date, plaid_transactions, plaid_accounts,
          account_data, merged_transactions>>

----------------------------------------------------------------------------
(* Python values *)

\* Python's None
None == "<None>"

\* the empty dict literal {} used as a value
EmptyDict == "<{}>"

\* bool(v) for the values a category cell holds
Truthy(v) == v \notin {None, "", EmptyDict}

\* d.get(k)
Get(d, k) == IF k \in DOMAIN d THEN d[k] ELSE None

\* d.get(k, default)
GetOr(d, k, default) == IF k \in DOMAIN d THEN d[k] ELSE default

\* d[k] = v
SetItem(d, k, v) == (k :> v) @@ d

\* d.update(e)
Update(d, e) == e @@ d

\* the empty dict / OrderedDict()
EmptyMap == [k \in {} |-> None]

\* len(d.keys())
NumKeys(d) == Cardinality(DOMAIN d)

----------------------------------------------------------------------------
(* datetime *)

DateTime(y, m, d) == [year |-> y, month |-> m, day |-> d]

\* a < b on datetime values
DateLT(a, b) ==
    \/ a.year < b.year
    \/ a.year = b.year /\ a.month < b.month
    \/ a.year = b.year /\ a.month = b.month /\ a.day < b.day

Pad2(n) == IF n < 10 THEN "0" \o ToString(n) ELSE ToString(n)

\* dt.strftime("%Y-%m-%d"), for four-digit years
strftime(dt) == ToString(dt.year) \o "-" \o Pad2(dt.month) \o "-" \o Pad2(dt.day)

IsLeap(y) == (y % 4 = 0 /\ y % 100 # 0) \/ y % 400 = 0

DaysInMonth(y, m) ==
    IF m = 2 THEN (IF IsLeap(y) THEN 29 ELSE 28)
    ELSE IF m \in {4, 6, 9, 11} THEN 30 ELSE 31

\* dt + timedelta(days=1)
NextDay(dt) ==
    IF dt.day < DaysInMonth(dt.year, dt.month) THEN DateTime(dt.year, dt.month, dt.day + 1)
    ELSE IF dt.month < 12 THEN DateTime(dt.year, dt.month + 1, 1)
    ELSE DateTime(dt.year + 1, 1, 1)

----------------------------------------------------------------------------
(* load_existing_transactions *)

\* one sheet row as a dict: row_dict[header_row[i]] = cell.value, a later
\* column of the same name overwriting an earlier one
RowDict(header_row, row) ==
    [k \in {header_row[i] : i \in 1..Len(row)} |->
        row[CHOOSE i \in 1..Len(row) :
                /\ header_row[i] = k
                /\ \A j \in 1..Len(row) : header_row[j] = k => j <= i]]

load_existing_transactions(wb) ==
    [r \in 1..Len(wb.rows) |-> RowDict(wb.header, wb.rows[r])]

----------------------------------------------------------------------------
(* group_transactions_by_category *)

\* A Counter is the sequence of its [key, count] entries in insertion order.
\* counter[key] += 1
CounterIncr(counter, key) ==
    IF \E i \in 1..Len(counter) : counter[i].key = key
    THEN [i \in 1..Len(counter) |->
            IF counter[i].key = key
            THEN [key |-> key, count |-> counter[i].count + 1]
            ELSE counter[i]]
    ELSE Append(counter, [key |-> key, count |-> 1])

RECURSIVE GroupLoop(_, _, _)
GroupLoop(category_dict, transactions, i) ==
    IF i > Len(transactions) THEN category_dict
    ELSE LET transaction == transactions[i]
             description == transaction["description"]
         IN  IF Truthy(transaction["category"])
             THEN GroupLoop(SetItem(category_dict, description,
                                    CounterIncr(GetOr(category_dict, description, <<>>),
                                                transaction["category"])),
                            transactions, i + 1)
             ELSE GroupLoop(category_dict, transactions, i + 1)

group_transactions_by_category(transactions) ==
    GroupLoop(EmptyMap, transactions, 1)

\* the place of entry e in a list sorted by count, largest first, that keeps
\* entries of equal count in the order they arrived (sorted() is stable)
RECURSIVE InsertByCount(_, _)
InsertByCount(sorted, e) ==
    IF Len(sorted) = 0 THEN <<e>>
    ELSE IF Head(sorted).count >= e.count
         THEN <<Head(sorted)>> \o InsertByCount(Tail(sorted), e)
         ELSE <<e>> \o sorted

\* most_common() without the sort: the entries in insertion order
MostCommonUnsorted(counter) == counter

\* Counter.most_common(): sorted(items, key=count, reverse=True)
RECURSIVE most_common(_)
most_common(counter) ==
    IF Len(counter) = 0 THEN <<>>
    ELSE InsertByCount(most_common(SubSeq(counter, 1, Len(counter) - 1)),
                       counter[Len(counter)])

----------------------------------------------------------------------------
(* query_plaid_transactions and the provider behind it *)

\* the days the provider's calendar knows, across a month end
Calendar ==
    {DateTime(2018, 1, 30), DateTime(2018, 1, 31),
     DateTime(2018, 2, 1), DateTime(2018, 2, 2)}

\* date.today()
today == DateTime(2018, 2, 2)

\* the provider reads a "YYYY-MM-DD" string back as a day
ParseDate(s) == CHOOSE d \in Calendar : strftime(d) = s

IsDateStr(s) == \E d \in Calendar : strftime(d) = s

DateStrLE(a, b) == ~DateLT(ParseDate(b), ParseDate(a))

Min(a, b) == IF a <= b THEN a ELSE b

\* count=500
PlaidCount == 500

\* plaid_client.Transactions.get(token, start_date, end_date, count): the
\* transactions dated start_date..end_date, both ends included, at most count
PlaidTransactionsGet(provider, start, end, count) ==
    LET InWindow(t) == /\ IsDateStr(start) /\ IsDateStr(end)
                       /\ DateStrLE(start, t["date"])
                       /\ DateStrLE(t["date"], end)
        found == SelectSeq(provider.transactions, InWindow)
    IN  [transactions |-> SubSeq(found, 1, Min(count, Len(found))),
         accounts |-> provider.accounts]

query_plaid_transactions(provider, start, end_date) ==
    PlaidTransactionsGet(provider, start,
                         IF ~Truthy(end_date) THEN strftime(today) ELSE end_date,
                         PlaidCount)

----------------------------------------------------------------------------
(* build_account_details *)

AccountDetails(config, account) ==
    [bank_account_number |-> Get(account, "mask"),
     account_name |-> Get(config.BANK_NAME_MAPPING, Get(account, "mask")),
     institution_type |-> Get(account, "type"),
     account_type |-> Get(account, "type"),
     account_subtype |-> Get(account, "subtype")]

RECURSIVE AccountLoop(_, _, _, _)
AccountLoop(config, account_dict, account_response, i) ==
    IF i > Len(account_response) THEN account_dict
    ELSE AccountLoop(config,
                     SetItem(account_dict, Get(account_response[i], "account_id"),
                             AccountDetails(config, account_response[i])),
                     account_response, i + 1)

build_account_details(config, account_response) ==
    AccountLoop(config, EmptyMap, account_response, 1)

----------------------------------------------------------------------------
(* merge_transactions *)

\* (', ').join(parts)
RECURSIVE Join(_)
Join(parts) ==
    IF Len(parts) = 0 THEN ""
    ELSE IF Len(parts) = 1 THEN parts[1]
    ELSE parts[1] \o ", " \o Join(Tail(parts))

\* transaction.get('category') or []: a missing key and a JSON null both
\* read as None through .get, so a null category is the key left out
CategoryOrEmpty(transaction) ==
    IF "category" \in DOMAIN transaction THEN transaction["category"] ELSE <<>>

\* transaction.get('location', {})
LocationOrEmpty(transaction) ==
    IF "location" \in DOMAIN transaction THEN transaction["location"] ELSE EmptyMap

\* the mask of Kara's business account
ExcludedMask == "7550"

\* lines 94-105: the fields set on transaction_dict after the account fields
TransactionFields(transaction_dict, transaction) ==
    [date |-> Get(transaction, "date"),
     description |-> Get(transaction, "name"),
     amount |-> Get(transaction, "amount"),
     plaid_category |-> Join(CategoryOrEmpty(transaction)),
     transaction_type |-> Get(transaction, "transaction_type"),
     address |-> GetOr(LocationOrEmpty(transaction), "address", EmptyDict),
     city |-> Get(LocationOrEmpty(transaction), "city"),
     state |-> Get(LocationOrEmpty(transaction), "state"),
     zip |-> Get(LocationOrEmpty(transaction), "zip"),
     country |-> Get(LocationOrEmpty(transaction), "country"),
     pending |-> Get(transaction, "pending"),
     transaction_id |-> Get(transaction, "transaction_id")] @@ transaction_dict

\* the test of line 87
AlreadyExisting(transaction, existing_transaction_ids) ==
    Get(transaction, "transaction_id") \in existing_transaction_ids

\* the test of line 92 made on the display name instead of the mask
IsExcludedByName(transaction_dict) ==
    Get(transaction_dict, "account_name") = ExcludedMask

\* the test of line 92
IsExcluded(transaction_dict) ==
    Get(transaction_dict, "bank_account_number") = ExcludedMask

\* the loop body with account_data.get(id, {}) for account_data[id]: a
\* transaction of an unknown account gets a row without account fields
MergeStepLenient(existing_transaction_ids, merged, transaction, accounts) ==
    IF AlreadyExisting(transaction, existing_transaction_ids)
    THEN [raised |-> None, value |-> merged]
    ELSE LET transaction_dict ==
                 Update(EmptyMap, GetOr(accounts, Get(transaction, "account_id"), EmptyMap))
         IN  IF IsExcluded(transaction_dict)
             THEN [raised |-> None, value |-> merged]
             ELSE [raised |-> None,
                   value |-> Append(merged,
                                    TransactionFields(transaction_dict, transaction))]

\* the loop body, lines 86-107, on one transaction: the list after it, or
\* the KeyError that account_data[...] raises
MergeStep(existing_transaction_ids, merged, transaction, accounts) ==
    IF AlreadyExisting(transaction, existing_transaction_ids)
    THEN [raised |-> None, value |-> merged]
    ELSE IF Get(transaction, "account_id") \notin DOMAIN accounts
    THEN [raised |-> "KeyError", value |-> <<>>]
    ELSE LET transaction_dict ==
                 Update(EmptyMap, accounts[Get(transaction, "account_id")])
         IN  IF IsExcluded(transaction_dict)
             THEN [raised |-> None, value |-> merged]
             ELSE [raised |-> None,
                   value |-> Append(merged,
                                    TransactionFields(transaction_dict, transaction))]

\* the for loop of lines 85-107
RECURSIVE MergeLoop(_, _, _, _, _)
MergeLoop(existing_transaction_ids, merged, new_transactions, accounts, i) ==
    IF i > Len(new_transactions) THEN [raised |-> None, value |-> merged]
    ELSE LET r == MergeStep(existing_transaction_ids, merged, new_transactions[i],
                            accounts)
         IN  IF r.raised # None THEN r
             ELSE MergeLoop(existing_transaction_ids, r.value, new_transactions,
                            accounts, i + 1)

\* line 82
ExistingTransactionIds(existing) ==
    {Get(existing[i], "transaction_id") : i \in 1..Len(existing)}

merge_transactions(existing, new_transactions, accounts) ==
    MergeLoop(ExistingTransactionIds(existing), existing, new_transactions, accounts, 1)

----------------------------------------------------------------------------
(* apply_transaction_categories *)

\* the lookup taking the last entry of most_common() instead of the first
InferredCategoryLast(counters, description) ==
    IF description \in DOMAIN counters /\ Len(counters[description]) > 0
    THEN most_common(counters[description])[Len(counters[description])].key
    ELSE None

\* lines 115-116: the category looked up for a description
InferredCategory(counters, description) ==
    IF description \in DOMAIN counters /\ Len(counters[description]) > 0
    THEN most_common(counters[description])[1].key
    ELSE None

\* lines 115-116 without the test of line 114
ApplyCategoryAlways(transaction, counters) ==
    SetItem(transaction, "category",
            InferredCategory(counters, transaction["description"]))

\* lines 114-116 on one row
ApplyCategory(transaction, counters) ==
    IF ~Truthy(Get(transaction, "category"))
    THEN SetItem(transaction, "category",
                 InferredCategory(counters, transaction["description"]))
    ELSE transaction

apply_transaction_categories(transactions, counters) ==
    [i \in 1..Len(transactions) |-> ApplyCategory(transactions[i], counters)]

----------------------------------------------------------------------------
(* save_results_to_csv *)

Range(seq) == {seq[i] : i \in 1..Len(seq)}

\* DictWriter._dict_to_list: the row's values in fieldnames order, a missing
\* key as restval ''. The file keeps the values handed to the csv writer
\* (which then writes str(value), and None as the empty string).
DictToList(fieldnames, rowdict) ==
    [j \in 1..Len(fieldnames) |-> GetOr(rowdict, fieldnames[j], "")]

\* DictWriter raises ValueError on a key that is no fieldname
HasExtraKeys(fieldnames, rowdict) == ~(DOMAIN rowdict \subseteq Range(fieldnames))

\* the number of leading rows writerows writes before one raises
RECURSIVE RowsWritten(_, _, _)
RowsWritten(fieldnames, transactions, i) ==
    IF i > Len(transactions) \/ HasExtraKeys(fieldnames, transactions[i]) THEN i - 1
    ELSE RowsWritten(fieldnames, transactions, i + 1)

\* the assert of line 122
FieldCountMatches(config, transactions) ==
    NumKeys(transactions[1]) = Len(config.FIELDNAMES)

save_results_to_csv(config, transactions, file) ==
    IF Len(transactions) = 0 THEN [raised |-> "IndexError", file |-> file]
    ELSE IF ~FieldCountMatches(config, transactions)
    THEN [raised |-> "AssertionError", file |-> file]
    ELSE LET n == RowsWritten(config.FIELDNAMES, transactions, 1)
         IN  [raised |-> IF n < Len(transactions) THEN "ValueError" ELSE None,
              file |-> [opened |-> TRUE,
                        header |-> config.FIELDNAMES,
                        rows |-> [i \in 1..n |->
                                    DictToList(config.FIELDNAMES, transactions[i])]]]

----------------------------------------------------------------------------
(* The inputs of a run: config.json, the workbook, the provider's data *)

\* the longest ledger and the longest provider batch a run is given
MaxLedger == 3
MaxBatch == 2

\* the column layout of the reference deployment
StandardFields ==
    <<"bank_account_number", "account_name", "institution_type", "account_type",
      "account_subtype", "date", "description", "amount", "plaid_category",
      "transaction_type", "address", "city", "state", "zip", "country",
      "pending", "transaction_id", "category">>

BANK_NAME_MAPPING == ("1234" :> "Chase Checking") @@ ("7550" :> "Kara Business")

Config(fieldnames) ==
    [FIELDNAMES |-> fieldnames, BANK_NAME_MAPPING |-> BANK_NAME_MAPPING]

\* one sheet row under StandardFields
LedgerCells(id, day, description, category) ==
    <<"1234", "Chase Checking", "depository", "depository", "checking",
      day, description, 5, "Food and Drink", "place",
      None, None, None, None, None, FALSE, id, category>>

Workbook(header, rows) == [header |-> header, rows |-> rows]

\* one transaction object of the provider, without category and location
PlaidTransaction(id, account_id, day, name) ==
    [transaction_id |-> id, account_id |-> account_id, date |-> strftime(day),
     name |-> name, amount |-> 5, transaction_type |-> "place", pending |-> FALSE]

WithCategory(transaction) ==
    ("category" :> <<"Food and Drink", "Coffee Shop">>) @@ transaction

WithLocation(transaction, location) == ("location" :> location) @@ transaction

Account(account_id, mask) ==
    [account_id |-> account_id, mask |-> mask, type |-> "depository",
     subtype |-> "checking"]

\* acc_k is the excluded account, acc_b has a mask with no display name, and
\* acc_x (used by transactions below) is not among the accounts
PlaidAccounts ==
    <<Account("acc_a", "1234"), Account("acc_k", "7550"), Account("acc_b", "9999")>>

Provider(transactions) == [transactions |-> transactions, accounts |-> PlaidAccounts]

SeqsUpTo(S, n) == UNION {[1..k -> S] : k \in 0..n}

Id(prefix, i) == prefix \o ToString(i)

World(config, wb, provider) == [config |-> config, wb |-> wb, provider |-> provider]

Day1 == DateTime(2018, 1, 30)
Day2 == DateTime(2018, 1, 31)
Day3 == DateTime(2018, 2, 1)

\* Ledgers of transactions tx_1, tx_2, ... and batches that differ in their
\* transaction ids (tx_1 is in every ledger that has a row) and accounts
IdWorlds ==
    {World(Config(StandardFields),
           Workbook(StandardFields,
                    [i \in 1..n |-> LedgerCells(Id("tx_", i), Day1, "COFFEE SHOP", "Dining")]),
           Provider([i \in 1..Len(b) |->
                        WithCategory(PlaidTransaction(b[i][1], b[i][2], Day2, "COFFEE SHOP"))])) :
        n \in 0..MaxLedger,
        b \in SeqsUpTo({"tx_1", "tx_9"} \X {"acc_a", "acc_k", "acc_x"}, MaxBatch)}

\* Ledgers that differ in descriptions and categories
LedgerCategories ==
    ({"COFFEE SHOP"} \X {None, "", "Dining", "Groceries"}) \cup {<<"GAS STATION", "Auto">>}

\* the descriptions of the new transactions, in the order fetched
NewDescriptions(i) ==
    IF i % 3 = 1 THEN "COFFEE SHOP" ELSE IF i % 3 = 2 THEN "NEW VENDOR XYZ" ELSE "GAS STATION"

CategoryWorlds ==
    {World(Config(StandardFields),
           Workbook(StandardFields,
                    [i \in 1..Len(l) |-> LedgerCells(Id("old_", i), Day1, l[i][1], l[i][2])]),
           Provider([i \in 1..m |->
                        WithCategory(PlaidTransaction(Id("new_", i), "acc_a", Day2,
                                                      NewDescriptions(i)))])) :
        l \in SeqsUpTo(LedgerCategories, MaxLedger) \ {<<>>},
        m \in 0..MaxBatch}

\* Workbooks and configurations that differ in their columns
ColumnWorlds ==
    {World(Config(StandardFields \o f),
           Workbook(StandardFields \o h,
                    [i \in 1..n |-> LedgerCells(Id("old_", i), Day1, "COFFEE SHOP", "Dining")
                                    \o [j \in 1..Len(h) |-> "x"]]),
           Provider([i \in 1..m |->
                        WithCategory(PlaidTransaction(Id("new_", i), "acc_a", Day2, "COFFEE SHOP"))])) :
        f \in {<<>>, <<"notes">>}, h \in {<<>>, <<"notes">>, <<"memo">>},
        n \in 0..1, m \in 0..1}

\* Ledgers and batches that differ in their dates
DateWorlds ==
    {World(Config(StandardFields),
           Workbook(StandardFields,
                    [i \in 1..Len(l) |-> LedgerCells(Id("old_", i), l[i], "COFFEE SHOP", "Dining")]),
           Provider([i \in 1..Len(b) |->
                        WithCategory(PlaidTransaction(Id("new_", i), "acc_a", b[i], "COFFEE SHOP"))])) :
        l \in SeqsUpTo({Day1, Day2}, MaxLedger) \ {<<>>},
        b \in SeqsUpTo({Day2, Day3}, MaxBatch)}

\* Batches that differ in the location and category the provider sends
Locations ==
    {[address |-> "1 Main St", city |-> "Springfield", state |-> "IL",
      zip |-> "62701", country |-> "US"],
     [address |-> "1 Main St"],
     [city |-> "Springfield", state |-> None],
     EmptyMap}

\* a transaction without location object, or with one of Locations (none of
\* these transactions carries a category)
LocationVariants ==
    {<<FALSE, EmptyMap>>} \cup {<<TRUE, loc>> : loc \in Locations}

LocationWorlds ==
    {World(Config(StandardFields),
           Workbook(StandardFields, <<LedgerCells("tx_1", Day1, "COFFEE SHOP", "Dining")>>),
           Provider([i \in 1..Len(b) |->
                        LET t == PlaidTransaction(Id("new_", i), "acc_a", Day2, "COFFEE SHOP")
                        IN  IF b[i][1] THEN WithLocation(t, b[i][2]) ELSE t])) :
        b \in SeqsUpTo(LocationVariants, MaxBatch) \ {<<>>}}

Worlds == IdWorlds \cup CategoryWorlds \cup ColumnWorlds \cup DateWorlds \cup LocationWorlds

NoFile == [opened |-> FALSE, header |-> <<>>, rows |-> <<>>]

----------------------------------------------------------------------------
(* __main__ *)

Init ==
    /\ \E w \in Worlds :
        /\ CONFIG = w.config
        /\ workbook = w.wb
        /\ plaid = w.provider
    /\ csv_file = NoFile
    /\ pc = "load"
    /\ error = None
    /\ existing_transactions = <<>>
    /\ category_data = EmptyMap
    /\ start_date = None
    /\ plaid_transactions = <<>>
    /\ plaid_accounts = <<>>
    /\ account_data = EmptyMap
    /\ merged_transactions = <<>>

\* line 130
Load ==
    /\ pc = "load"
    /\ existing_transactions' = load_existing_transactions(workbook)
    /\ pc' = "group"
    /\ UNCHANGED <<error, CONFIG, workbook, plaid, csv_file, category_data, start_date,
                   plaid_transactions, plaid_accounts, account_data, merged_transactions>>

\* line 131
Group ==
    /\ pc = "group"
    /\ category_data' = group_transactions_by_category(existing_transactions)
    /\ pc' = "start_date"
    /\ UNCHANGED <<error, CONFIG, workbook, plaid, csv_file, existing_transactions,
                   start_date, plaid_transactions, plaid_accounts, account_data,
                   merged_transactions>>

\* max(transactions, key=lambda x: x['date']): the first row of the latest date
RECURSIVE MaxByDate(_, _, _)
MaxByDate(transactions, best, i) ==
    IF i > Len(transactions) THEN best
    ELSE IF DateLT(best["date"], transactions[i]["date"])
         THEN MaxByDate(transactions, transactions[i], i + 1)
         ELSE MaxByDate(transactions, best, i + 1)

\* the expression of line 133
StartDateOf(transactions) ==
    strftime(MaxByDate(transactions, transactions[1], 2)["date"])

\* line 133; max() of an empty list raises ValueError
StartDate ==
    /\ pc = "start_date"
    /\ IF Len(existing_transactions) = 0
       THEN /\ error' = "ValueError"
            /\ pc' = "error"
            /\ UNCHANGED start_date
       ELSE /\ start_date' = StartDateOf(existing_transactions)
            /\ pc' = "query"
            /\ UNCHANGED error
    /\ UNCHANGED <<CONFIG, workbook, plaid, csv_file, existing_transactions,
                   category_data, plaid_transactions, plaid_accounts, account_data,
                   merged_transactions>>

\* lines 134-137
Query ==
    /\ pc = "query"
    /\ LET response == query_plaid_transactions(plaid, start_date, None)
       IN  /\ plaid_transactions' = response.transactions
           /\ plaid_accounts' = response.accounts
    /\ pc' = "accounts"
    /\ UNCHANGED <<error, CONFIG, workbook, plaid, csv_file, existing_transactions,
                   category_data, start_date, account_data, merged_transactions>>

\* line 139
BuildAccounts ==
    /\ pc = "accounts"
    /\ account_data' = build_account_details(CONFIG, plaid_accounts)
    /\ pc' = "merge"
    /\ UNCHANGED <<error, CONFIG, workbook, plaid, csv_file, existing_transactions,
                   category_data, start_date, plaid_transactions, plaid_accounts,
                   merged_transactions>>

\* line 140
Merge ==
    /\ pc = "merge"
    /\ LET r == merge_transactions(existing_transactions, plaid_transactions, account_data)
       IN  IF r.raised # None
           THEN /\ error' = r.raised
                /\ pc' = "error"
                /\ UNCHANGED merged_transactions
           ELSE /\ merged_transactions' = r.value
                /\ pc' = "apply"
                /\ UNCHANGED error
    /\ UNCHANGED <<CONFIG, workbook, plaid, csv_file, existing_transactions,
                   category_data, start_date, plaid_transactions, plaid_accounts,
                   account_data>>

\* line 141. list(existing_transactions) copied the list, not its dicts: the
\* ledger rows of merged_transactions are the dicts of existing_transactions,
\* and what is assigned to one is read through the other
Apply ==
    /\ pc = "apply"
    /\ merged_transactions' = apply_transaction_categories(merged_transactions, category_data)
    /\ existing_transactions' = SubSeq(merged_transactions', 1, Len(existing_transactions))
    /\ pc' = "save"
    /\ UNCHANGED <<error, CONFIG, workbook, plaid, csv_file, category_data, start_date,
                   plaid_transactions, plaid_accounts, account_data>>

\* line 143
Save ==
    /\ pc = "save"
    /\ LET r == save_results_to_csv(CONFIG, merged_transactions, csv_file)
       IN  /\ csv_file' = r.file
           /\ error' = r.raised
           /\ pc' = IF r.raised # None THEN "error" ELSE "done"
    /\ UNCHANGED <<CONFIG, workbook, plaid, existing_transactions, category_data,
                   start_date, plaid_transactions, plaid_accounts, account_data,
                   merged_transactions>>

Next == Load \/ Group \/ StartDate \/ Query \/ BuildAccounts \/ Merge \/ Apply \/ Save

Spec == Init /\ [][Next]_vars

----------------------------------------------------------------------------
(* What the properties below speak of *)

\* the ledger rows as they were loaded from the workbook
Ledger == load_existing_transactions(workbook)

\* merge_transactions has returned its list (the ledger is not empty then)
MergeReturned == Len(merged_transactions) > 0

\* apply_transaction_categories has run on the merged list
Inferred == MergeReturned /\ pc # "apply"

\* the rows of the merged list behind the ledger prefix
Appended == SubSeq(merged_transactions, Len(Ledger) + 1, Len(merged_transactions))

LedgerIds == {Ledger[i]["transaction_id"] : i \in 1..Len(Ledger)}

\* a fetched transaction that is neither in the ledger nor on the excluded mask
Accepted(t) ==
    /\ t["transaction_id"] \notin LedgerIds
    /\ t["account_id"] \in DOMAIN account_data
    /\ account_data[t["account_id"]]["bank_account_number"] # "7550"

AcceptedTransactions == SelectSeq(plaid_transactions, Accepted)

LocationFields == {"address", "city", "state", "zip", "country"}

\* how many ledger rows give a description a category
HistoryCount(ledger, description, category) ==
    Cardinality({k \in 1..Len(ledger) :
                    /\ ledger[k]["description"] = description
                    /\ ledger[k]["category"] = category})

\* the non-empty categories the ledger gives a description
HistoryCategories(ledger, description) ==
    {ledger[k]["category"] :
        k \in {j \in 1..Len(ledger) : /\ ledger[j]["description"] = description
                                      /\ Truthy(ledger[j]["category"])}}

----------------------------------------------------------------------------
(* Properties *)

\* C1: in the list merge_transactions returns, the transaction_id values of
\* the rows appended after the ledger prefix are pairwise distinct and none
\* of them is the transaction_id of a ledger row.
C1_AppendedIdsDistinctAndNew ==
    MergeReturned =>
        /\ \A i, j \in 1..Len(Appended) :
              i # j => Appended[i]["transaction_id"] # Appended[j]["transaction_id"]
        /\ \A i \in 1..Len(Appended) : Appended[i]["transaction_id"] \notin LedgerIds

\* C2: after merge_transactions and apply_transaction_categories the
\* output's prefix holds every ledger row, in its original order, with every
\* field (category included) equal to the value loaded from the ledger; an
\* empty category loaded as '' and held as None is taken as equal.
C2_LedgerRowsUnchanged ==
    Inferred =>
        /\ Len(merged_transactions) >= Len(Ledger)
        /\ \A i \in 1..Len(Ledger) :
              LET was == Ledger[i]
                  now == merged_transactions[i]
              IN  /\ DOMAIN now = DOMAIN was
                  /\ \A k \in DOMAIN was \ {"category"} : now[k] = was[k]
                  /\ \/ now["category"] = was["category"]
                     \/ ~Truthy(now["category"]) /\ ~Truthy(was["category"])

\* What the run does keep of a ledger row: its place, its fields, every value
\* but category, and category when the ledger held one.
LedgerRowsKeptButEmptyCategory ==
    MergeReturned =>
        /\ Len(merged_transactions) >= Len(Ledger)
        /\ \A i \in 1..Len(Ledger) :
              LET was == Ledger[i]
                  now == merged_transactions[i]
              IN  /\ DOMAIN now = DOMAIN was
                  /\ \A k \in DOMAIN was \ {"category"} : now[k] = was[k]
                  /\ (pc = "apply" \/ Truthy(was["category"]))
                        => now["category"] = was["category"]

\* C3: a row of the merged list without category gets, by
\* apply_transaction_categories, a category that no other category of the
\* ledger rows of its description outnumbers, when the ledger gives its
\* description a category at all; it gets None otherwise, and nothing is raised.
C3_InferenceFillsMostCommon ==
    [][pc = "apply" =>
        /\ pc' = "save" /\ error' = None
        /\ Len(merged_transactions') = Len(merged_transactions)
        /\ \A i \in 1..Len(merged_transactions) :
              ~Truthy(Get(merged_transactions[i], "category")) =>
                  LET d == merged_transactions[i]["description"]
                      H == HistoryCategories(existing_transactions, d)
                      c == merged_transactions'[i]["category"]
                  IN  IF H # {}
                      THEN /\ c \in H
                           /\ \A o \in H :
                                 HistoryCount(existing_transactions, d, o)
                                    <= HistoryCount(existing_transactions, d, c)
                      ELSE c = None]_vars

\* the history Groceries, Dining, Dining gives a new row Dining, and a new
\* row of a description the ledger never saw stays without category
C3_Witness ==
    /\ pc = "save"
    /\ Len(Ledger) = 3
    /\ Ledger[1]["category"] = "Groceries"
    /\ HistoryCount(Ledger, "COFFEE SHOP", "Dining") = 2
    /\ \E i \in 1..Len(Appended) :
          /\ Appended[i]["description"] = "COFFEE SHOP"
          /\ Appended[i]["category"] = "Dining"
    /\ \E i \in 1..Len(Appended) :
          /\ Appended[i]["description"] = "NEW VENDOR XYZ"
          /\ Appended[i]["category"] = None

\* the count a description's Counter holds for a category
CounterCount(counters, description, category) ==
    IF description \notin DOMAIN counters THEN 0
    ELSE LET counter == counters[description]
             at == {k \in 1..Len(counter) : counter[k].key = category}
         IN  IF at = {} THEN 0 ELSE counter[CHOOSE k \in at : TRUE].count

\* the category a ledger gives a description: the first, in ledger order, of
\* those the most rows of that description carry
RECURSIVE FirstTopCategory(_, _, _, _)
FirstTopCategory(ledger, description, best, i) ==
    IF i > Len(ledger) THEN best
    ELSE LET c == ledger[i]["category"]
         IN  IF /\ ledger[i]["description"] = description
                /\ Truthy(c)
                /\ \A o \in HistoryCategories(ledger, description) :
                      HistoryCount(ledger, description, o)
                         <= HistoryCount(ledger, description, c)
                /\ best = None
             THEN FirstTopCategory(ledger, description, c, i + 1)
             ELSE FirstTopCategory(ledger, description, best, i + 1)

\* C4: the counters are built from the ledger alone (one count per ledger row
\* with a category), merge_transactions and apply_transaction_categories leave
\* them as built, and the category a new row gets is a function of the ledger
\* and the row's description only, whatever else the batch holds.
C4_ModelBuiltOnceFromLedger ==
    [][/\ pc = "group" =>
            \A i \in 1..Len(Ledger) :
                Truthy(Ledger[i]["category"]) =>
                    CounterCount(category_data', Ledger[i]["description"],
                                 Ledger[i]["category"])
                      = HistoryCount(Ledger, Ledger[i]["description"],
                                     Ledger[i]["category"])
       /\ pc \in {"merge", "apply"} => category_data' = category_data
       /\ pc = "apply" =>
            \A i \in Len(Ledger) + 1..Len(merged_transactions') :
                merged_transactions'[i]["category"]
                  = FirstTopCategory(Ledger, merged_transactions'[i]["description"],
                                     None, 1)]_vars

\* two new rows of one batch, of different descriptions, after inference
C4_Witness ==
    /\ pc = "save"
    /\ Len(Appended) = 2
    /\ Appended[1]["category"] = "Groceries"
    /\ Appended[2]["category"] = None
    /\ HistoryCount(Ledger, "COFFEE SHOP", "Dining") = 1
    /\ CounterCount(category_data, "COFFEE SHOP", "Groceries") = 2

\* a fetched transaction whose account id the account map does not hold
UnknownAccount(t) == Get(t, "account_id") \notin DOMAIN account_data

\* C5 as stated: when any fetched transaction names an account id that the
\* account map does not hold, merge_transactions raises and returns no list.
C5_UnknownAccountAborts ==
    [][(/\ pc = "merge"
        /\ \E k \in 1..Len(plaid_transactions) : UnknownAccount(plaid_transactions[k]))
       => /\ pc' = "error" /\ error' = "KeyError"
          /\ merged_transactions' = <<>>]_vars

\* C5 as amended: when any fetched transaction whose transaction_id is not
\* already in the ledger names an account id that the account map does not
\* hold, merge_transactions raises (KeyError) and returns no list; no row is
\* appended for it and it is not skipped.
C5_UnknownAccountOfNewTransactionAborts ==
    [][(/\ pc = "merge"
        /\ \E k \in 1..Len(plaid_transactions) :
              /\ UnknownAccount(plaid_transactions[k])
              /\ plaid_transactions[k]["transaction_id"] \notin LedgerIds)
       => /\ pc' = "error" /\ error' = "KeyError"
          /\ merged_transactions' = <<>>]_vars

\* the run ended in merge_transactions on a new transaction of an unknown
\* account that came after an accepted one
C5_Witness ==
    /\ pc = "error" /\ error = "KeyError"
    /\ Len(plaid_transactions) = 2
    /\ Accepted(plaid_transactions[1])
    /\ UnknownAccount(plaid_transactions[2])
    /\ plaid_transactions[2]["transaction_id"] \notin LedgerIds

\* C6: the output file is opened only when the merged list is not empty and
\* every record has as many fields as CONFIG["FIELDNAMES"] has columns, and
\* then every row of the merged list is written.
C6_OutputAllOrNothing ==
    csv_file # NoFile =>
        /\ Len(merged_transactions) > 0
        /\ \A i \in 1..Len(merged_transactions) :
              NumKeys(merged_transactions[i]) = Len(CONFIG.FIELDNAMES)
        /\ Len(csv_file.rows) = Len(merged_transactions)

\* the latest date among the ledger rows
LatestDate(ledger) ==
    CHOOSE d \in {ledger[i]["date"] : i \in 1..Len(ledger)} :
        \A i \in 1..Len(ledger) : ~DateLT(d, ledger[i]["date"])

\* C7: the start date handed to the fetch adapter is the day after the latest
\* date of the ledger rows, and no fetched transaction is dated on or before
\* that latest date.
C7_StartDateIsDayAfterLatest ==
    pc \in {"query", "accounts"} =>
        /\ start_date = strftime(NextDay(LatestDate(Ledger)))
        /\ \A k \in 1..Len(plaid_transactions) :
              DateLT(LatestDate(Ledger), ParseDate(plaid_transactions[k]["date"]))

\* C8: the row appended for an accepted transaction holds None in every
\* location field that the transaction's location object lacks, and in all
\* five when the transaction has no location object.
C8_MissingLocationIsNone ==
    MergeReturned =>
        /\ Len(Appended) = Len(AcceptedTransactions)
        /\ \A k \in 1..Len(Appended) : \A f \in LocationFields :
              (\/ "location" \notin DOMAIN AcceptedTransactions[k]
               \/ f \notin DOMAIN AcceptedTransactions[k]["location"])
                 => Appended[k][f] = None

\* C9: apply_transaction_categories leaves unchanged every row of the merged
\* list that carries a non-empty category, whatever the counters hold for its
\* description.
C9_CategoryNotOverwritten ==
    [][pc = "apply" =>
        \A i \in 1..Len(merged_transactions) :
            Truthy(Get(merged_transactions[i], "category")) =>
                merged_transactions'[i] = merged_transactions[i]]_vars

\* a ledger row kept Groceries although the counters rank Dining first for
\* its description
C9_Witness ==
    /\ pc = "save"
    /\ \E i \in 1..Len(Ledger) :
          /\ Ledger[i]["category"] = "Groceries"
          /\ merged_transactions[i]["category"] = "Groceries"
          /\ InferredCategory(category_data, Ledger[i]["description"]) = "Dining"

\* C10: no row that merge_transactions appends is of the excluded mask, and
\* the appended rows are, in the order fetched, the fetched transactions that
\* are neither in the ledger nor on the excluded mask.
C10_ExcludedMaskNeverAppended ==
    MergeReturned =>
        /\ \A k \in 1..Len(Appended) : Appended[k]["bank_account_number"] # "7550"
        /\ Len(Appended) = Len(AcceptedTransactions)
        /\ \A k \in 1..Len(Appended) :
              /\ Appended[k]["transaction_id"] = AcceptedTransactions[k]["transaction_id"]
              /\ Appended[k]["bank_account_number"]
                   = account_data[AcceptedTransactions[k]["account_id"]]["bank_account_number"]

\* a batch with a new transaction of the excluded account and one that is
\* appended
C10_Witness ==
    /\ MergeReturned
    /\ Len(Appended) = 1
    /\ \E k \in 1..Len(plaid_transactions) :
          /\ plaid_transactions[k]["transaction_id"] \notin LedgerIds
          /\ plaid_transactions[k]["account_id"] = "acc_k"

====
